---- MODULE Spec2Model ----
(***************************************************************************)
(* FitTrack API (src/main.py): the food diary, the day summary aggregator, *)
(* the two search adapters and the diagnostics endpoint, as state machines.*)
(*                                                                         *)
(* Numbers are Python floats in the source.  Here a macro value is an      *)
(* integer count of hundredths (95 -> 9500, 0.5 -> 50), and round(x, 1)    *)
(* is rounding to the nearest multiple of 10, ties to even.  The request   *)
(* payloads below only produce ties on values that are exact in binary     *)
(* (multiples of 0.25), where float rounding and decimal rounding agree.   *)
(*                                                                         *)
(* Python None is the empty tuple and a present optional value v is <<v>>. *)
(* Text that is searched or truncated is a tuple of one-character strings. *)
(***************************************************************************)
EXTENDS Integers, Sequences, FiniteSets, TLC

VARIABLES
    store,      \* the "foodentry" collection, in insertion order
    nextId,     \* the next identifier the store assigns
    writes,     \* history: number of create_document calls completed
    today,      \* date.today().isoformat() of the server clock
    pending,    \* add_food_to_diary requests between their write and their read
    env,        \* process environment: credentials, DATABASE_URL, db handle
    calls,      \* exchanges of the last request with a provider or the store probe
    resp        \* the last response a handler returned

vars == <<store, nextId, writes, today, pending, env, calls, resp>>

----------------------------------------------------------------------------
(* Bounds *)

MaxStore == 3
MaxInFlight == 2

----------------------------------------------------------------------------
(* Python values *)

None == <<>>
Some(v) == <<v>>

\* d.get(k, default)
Get(d, k, default) == IF k \in DOMAIN d THEN d[k] ELSE default

\* d.get(k): None when the key is missing
GetOpt(d, k) == IF k \in DOMAIN d THEN Some(d[k]) ELSE None

\* s[:n]
Take(s, n) == SubSeq(s, 1, IF Len(s) < n THEN Len(s) ELSE n)

\* round(x, 1) on hundredths: nearest multiple of 10, ties to the even tenth
Round1(x) ==
    LET q == x \div 10
        r == x % 10
    IN  IF r < 5 THEN q * 10
        ELSE IF r > 5 THEN (q + 1) * 10
        ELSE IF q % 2 = 0 THEN q * 10 ELSE (q + 1) * 10

\* sum(e.get(field, 0) for e in entries)
RECURSIVE SumField(_, _)
SumField(entries, field) ==
    IF entries = <<>> THEN 0
    ELSE Get(Head(entries), field, 0) + SumField(Tail(entries), field)

\* str(ObjectId)
StrId(oid) == ToString(oid.oid)

----------------------------------------------------------------------------
(* Diary: request payloads and the clock *)

Dates == <<"2024-03-01", "2024-03-02">>

MacroFields == {"calories", "protein_g", "carbohydrates_total_g", "fat_total_g"}

AppleBody ==
    [food_name |-> "Apple", calories |-> 9500, protein_g |-> 50,
     carbohydrates_total_g |-> 2500, fat_total_g |-> 30]

\* negative calories are accepted; the optional macros are omitted
RefundBody == [food_name |-> "Refund", calories |-> -10000]

\* 10.25 kcal and 0.75 g protein: ties of round(x, 1), exact in binary
BiteBody == [food_name |-> "Bite", calories |-> 1025, protein_g |-> 75]

WithDay(body, day) == [k \in DOMAIN body \cup {"consumed_at"} |->
                          IF k = "consumed_at" THEN day ELSE body[k]]

DiaryBodies ==
    {AppleBody, RefundBody, BiteBody}
    \cup {WithDay(b, "2024-03-01") : b \in {AppleBody, RefundBody, BiteBody}}

\* day parameters of GET /api/diary/summary
SummaryDays == {None, Some("2024-03-01"), Some("2024-03-02"), Some("2024-3-1")}

\* class DiaryFoodCreate(BaseModel): the validated request model with defaults
DiaryFoodCreate(body) ==
    [food_name             |-> body.food_name,
     calories              |-> body.calories,
     protein_g             |-> Get(body, "protein_g", 0),
     carbohydrates_total_g |-> Get(body, "carbohydrates_total_g", 0),
     fat_total_g           |-> Get(body, "fat_total_g", 0),
     consumed_at           |-> GetOpt(body, "consumed_at")]

\* x or default, for an Optional[str]
OrElse(opt, default) ==
    IF opt = None \/ opt = Some("") THEN default ELSE opt[1]

----------------------------------------------------------------------------
(* database.py: the persistent store behind create_document/get_documents *)

\* insert_one: the store appends the document under a fresh identifier
create_document(st, id, doc) ==
    Append(st, [k \in DOMAIN doc \cup {"_id"} |->
                   IF k = "_id" THEN [oid |-> id] ELSE doc[k]])

\* find({"day": d}): the stored documents whose day is exactly d, as stored
get_documents(st, d) == SelectSeq(st, LAMBDA e : e.day = d)

----------------------------------------------------------------------------
(* Day summary aggregator *)

get_day_summary_allDays(st, d) ==
    LET entries == get_documents(st, d)
    IN  [day     |-> d,
         totals  |-> [f \in MacroFields |-> Round1(SumField(st, f))],
         entries |-> [i \in 1..Len(entries) |->
                         [entries[i] EXCEPT !["_id"] = StrId(@)]]]

get_day_summary(st, d) ==
    LET entries == get_documents(st, d)
    IN  [day     |-> d,
         totals  |-> [f \in MacroFields |-> Round1(SumField(entries, f))],
         entries |-> [i \in 1..Len(entries) |->
                         [entries[i] EXCEPT !["_id"] = StrId(@)]]]

----------------------------------------------------------------------------
(* Diary handlers *)

NoResp == [op |-> "none"]

\* the document add_food_to_diary builds from the validated item
FoodDoc(item, day) ==
    [food_name             |-> item.food_name,
     calories              |-> item.calories,
     protein_g             |-> item.protein_g,
     carbohydrates_total_g |-> item.carbohydrates_total_g,
     fat_total_g           |-> item.fat_total_g,
     day                   |-> day]

\* add_food_to_diary, up to and including create_document
add_food_write_fixedDay(body) ==
    LET item == DiaryFoodCreate(body)
        day  == OrElse(item.consumed_at, Dates[1])
    IN  /\ Len(store) < MaxStore
        /\ Cardinality(pending) < MaxInFlight
        /\ store' = create_document(store, nextId, FoodDoc(item, day))
        /\ nextId' = nextId + 1
        /\ writes' = writes + 1
        /\ pending' = pending \cup
              {[item |-> item, day |-> day, inserted_id |-> ToString(nextId)]}
        /\ UNCHANGED <<today, env, calls, resp>>

add_food_write_upsert(body) ==
    LET item == DiaryFoodCreate(body)
        day  == OrElse(item.consumed_at, today)
        doc  == FoodDoc(item, day)
        same == {i \in 1..Len(store) :
                    store[i].food_name = doc.food_name /\ store[i].day = day}
        kept == SelectSeq(store, LAMBDA e :
                    ~(e.food_name = doc.food_name /\ e.day = day))
    IN  /\ Len(store) < MaxStore
        /\ Cardinality(pending) < MaxInFlight
        /\ store' = create_document(kept, nextId, doc)
        /\ nextId' = nextId + 1
        /\ writes' = writes + 1
        /\ pending' = pending \cup
              {[item |-> item, day |-> day, inserted_id |-> ToString(nextId)]}
        /\ UNCHANGED <<today, env, calls, resp>>

add_food_write_dedup(body) ==
    LET item == DiaryFoodCreate(body)
        day  == OrElse(item.consumed_at, today)
        doc  == FoodDoc(item, day)
        same == {i \in 1..Len(store) :
                    [k \in DOMAIN doc |-> store[i][k]] = doc}
    IN  /\ Len(store) < MaxStore
        /\ Cardinality(pending) < MaxInFlight
        /\ IF same = {}
           THEN /\ store' = create_document(store, nextId, doc)
                /\ nextId' = nextId + 1
                /\ pending' = pending \cup
                      {[item |-> item, day |-> day,
                        inserted_id |-> ToString(nextId)]}
           ELSE /\ UNCHANGED <<store, nextId>>
                /\ pending' = pending \cup
                      {[item |-> item, day |-> day,
                        inserted_id |-> StrId(store[CHOOSE i \in same : TRUE]["_id"])]}
        /\ writes' = writes + 1
        /\ UNCHANGED <<today, env, calls, resp>>

add_food_write(body) ==
    LET item == DiaryFoodCreate(body)
        day  == OrElse(item.consumed_at, today)
    IN  /\ Len(store) < MaxStore
        /\ Cardinality(pending) < MaxInFlight
        /\ store' = create_document(store, nextId, FoodDoc(item, day))
        /\ nextId' = nextId + 1
        /\ writes' = writes + 1
        /\ pending' = pending \cup
              {[item |-> item, day |-> day, inserted_id |-> ToString(nextId)]}
        /\ UNCHANGED <<today, env, calls, resp>>

\* add_food_to_diary, from get_day_summary(day) to the return
add_food_read(p) ==
    /\ p \in pending
    /\ pending' = pending \ {p}
    /\ resp' = [op          |-> "add",
                item        |-> p.item,
                inserted_id |-> p.inserted_id,
                summary     |-> get_day_summary(store, p.day),
                at          |-> Len(store)]
    /\ UNCHANGED <<store, nextId, writes, today, env, calls>>

\* GET /api/diary/summary
diary_summary_touch(day) ==
    LET d == OrElse(day, today)
    IN  /\ resp' = [op      |-> "summary",
                    summary |-> get_day_summary(store, d),
                    at      |-> Len(store)]
        /\ store' = SelectSeq(store, LAMBDA e : e.day # d)
        /\ UNCHANGED <<nextId, writes, today, pending, env, calls>>

diary_summary(day) ==
    LET d == OrElse(day, today)
    IN  /\ resp' = [op      |-> "summary",
                    summary |-> get_day_summary(store, d),
                    at      |-> Len(store)]
        /\ UNCHANGED <<store, nextId, writes, today, pending, env, calls>>

\* midnight: date.today() moves to the next calendar date
Tick ==
    /\ \E i \in 1..(Len(Dates) - 1) : today = Dates[i] /\ today' = Dates[i + 1]
    /\ UNCHANGED <<store, nextId, writes, pending, env, calls, resp>>

\* the pymongo handle database.py exports as db
DbHandle == [name |-> "fittrack"]

\* an environment with no credential set and the store configured
BaseEnv ==
    [NUTRITIONIX_APP_ID  |-> None,
     NUTRITIONIX_API_KEY |-> None,
     RAPIDAPI_KEY        |-> None,
     DATABASE_URL        |-> Some("mongodb://localhost:27017"),
     db                  |-> Some(DbHandle),
     json_error_is_request_exception |-> TRUE]

InitDiary ==
    /\ store = <<>>
    /\ nextId = 1
    /\ writes = 0
    /\ today = Dates[1]
    /\ pending = {}
    /\ env = BaseEnv
    /\ calls = <<>>
    /\ resp = NoResp

AddWrite == \E body \in DiaryBodies : add_food_write(body)
AddRead == \E p \in pending : add_food_read(p)
Summary == \E day \in SummaryDays : diary_summary(day)

NextDiary == AddWrite \/ AddRead \/ Summary \/ Tick

SpecDiary == InitDiary /\ [][NextDiary]_vars

----------------------------------------------------------------------------
(* Text *)

UpperChars == <<"A", "B", "C", "D", "E", "F", "G", "H", "I", "J", "K", "L", "M",
                "N", "O", "P", "Q", "R", "S", "T", "U", "V", "W", "X", "Y", "Z">>
LowerChars == <<"a", "b", "c", "d", "e", "f", "g", "h", "i", "j", "k", "l", "m",
                "n", "o", "p", "q", "r", "s", "t", "u", "v", "w", "x", "y", "z">>

\* str.lower()
Lower(s) ==
    [i \in 1..Len(s) |->
        IF \E j \in 1..Len(UpperChars) : UpperChars[j] = s[i]
        THEN LowerChars[CHOOSE j \in 1..Len(UpperChars) : UpperChars[j] = s[i]]
        ELSE s[i]]

\* needle in hay
Contains(needle, hay) ==
    \E i \in 0..(Len(hay) - Len(needle)) :
        SubSeq(hay, i + 1, i + Len(needle)) = needle

\* f"{literal}{text}": the literal, then the characters of text
Fmt(literal, text) == <<literal>> \o text

\* bool(os.getenv(...)): unset and empty are both false
Truthy(opt) == opt # None /\ opt # Some("")

Digits == <<"0", "1", "2", "3", "4", "5", "6", "7", "8", "9">>

\* an upstream message of n characters
Text(n) == [i \in 1..n |-> Digits[(i % 10) + 1]]

EnvValues == {None, Some(""), Some("key")}

----------------------------------------------------------------------------
(* Food search adapter *)

TextLimit == 120

FoodSample ==
    << [food_name |-> <<"P", "e", "t", "t", "o", " ", "d", "i", " ", "p", "o", "l", "l", "o">>, calories |-> 16500, protein_g |-> 3100,
        carbohydrates_total_g |-> 0, fat_total_g |-> 360],
       [food_name |-> <<"R", "i", "s", "o", " ", "b", "a", "s", "m", "a", "t", "i", " ", "(", "1", "0", "0", "g", ")">>, calories |-> 13000, protein_g |-> 270,
        carbohydrates_total_g |-> 2800, fat_total_g |-> 30],
       [food_name |-> <<"A", "v", "o", "c", "a", "d", "o", " ", "(", "1", "/", "2", ")">>, calories |-> 12000, protein_g |-> 150,
        carbohydrates_total_g |-> 600, fat_total_g |-> 1000] >>

FoodQueries ==
    { <<"p", "o", "l", "l", "o">>, <<"P", "O", "L", "L", "O">>, <<"o">>, <<"a">>, <<"t", "o", "f", "u">>, <<"(", "1">>, <<"r", "i", "s", "o", " ", "B", "A", "S", "M", "A", "T", "I", " ", "(", "1", "0", "0", "g", ")">>, <<" ">> }

\* what the provider may answer with status 200: an object with foods, an
\* object without, or a body that is not JSON (None)
EggFood ==
    [food_name |-> <<"e", "g", "g">>, nf_calories |-> 7800, nf_protein |-> 600,
     nf_total_carbohydrate |-> 60, nf_total_fat |-> 500, serving_qty |-> 1,
     serving_unit |-> "large"]
TeaFood == [food_name |-> <<"t", "e", "a">>, nf_calories |-> 100]

FoodJson ==
    { Some([foods |-> <<EggFood, TeaFood>>]),
      Some([foods |-> <<>>]),
      Some([message |-> "ok"]),
      None }

TextLengths == {0, 7, 119, 120, 121, 130}

\* outcomes of requests.post / requests.get: a transport failure
\* (requests.RequestException) or a response
FoodOutcomes ==
    {[kind |-> "error"]}
    \cup {[kind |-> "response", status |-> 200, text |-> <<>>, json |-> j] :
             j \in FoodJson}
    \cup {[kind |-> "response", status |-> st, text |-> Text(n), json |-> None] :
             st \in {404, 500}, n \in TextLengths}

\* the item search_food builds from one upstream food
FoodItemOf(f) ==
    [food_name             |-> GetOpt(f, "food_name"),
     calories              |-> Get(f, "nf_calories", 0),
     protein_g             |-> Get(f, "nf_protein", 0),
     carbohydrates_total_g |-> Get(f, "nf_total_carbohydrate", 0),
     fat_total_g           |-> Get(f, "nf_total_fat", 0),
     serving_qty           |-> GetOpt(f, "serving_qty"),
     serving_unit          |-> GetOpt(f, "serving_unit")]

\* the local filter over the sample list, then "filtered or sample"
FoodFallback_noDefault(q) ==
    SelectSeq(FoodSample, LAMBDA s : Contains(Lower(q), Lower(s.food_name)))

FoodFallback(q) ==
    LET filtered == SelectSeq(FoodSample,
                        LAMBDA s : Contains(Lower(q), Lower(s.food_name)))
    IN  IF filtered # <<>> THEN filtered ELSE FoodSample

\* the body of the try block once a response has arrived
FoodFromResponse_swallow(q, r) ==
    IF r.status # 200 \/ r.json = None
    THEN [op |-> "search_food", q |-> q, status |-> 200, items |-> FoodFallback(q)]
    ELSE [op |-> "search_food", q |-> q, status |-> 200,
          items |-> LET foods == Get(r.json[1], "foods", <<>>)
                    IN  [i \in 1..Len(foods) |-> FoodItemOf(foods[i])]]

FoodFromResponse(q, r) ==
    IF r.status # 200
    THEN [op |-> "search_food", q |-> q, status |-> 502,
          detail |-> Fmt("Nutritionix error: ", Take(r.text, TextLimit))]
    ELSE IF r.json = None
    THEN \* r.json() raises: requests.JSONDecodeError is a RequestException
         \* from requests 2.27 on, a plain ValueError before
         IF env.json_error_is_request_exception
         THEN [op |-> "search_food", q |-> q, status |-> 200,
               items |-> FoodFallback(q)]
         ELSE [op |-> "search_food", q |-> q, status |-> 500]
    ELSE [op |-> "search_food", q |-> q, status |-> 200,
          items |-> LET foods == Get(r.json[1], "foods", <<>>)
                    IN  [i \in 1..Len(foods) |-> FoodItemOf(foods[i])]]

\* GET /api/food/search?q=
search_food(q, up) ==
    LET keys == Truthy(env.NUTRITIONIX_APP_ID) /\ Truthy(env.NUTRITIONIX_API_KEY)
    IN  /\ Len(q) >= 1
        /\ calls' = IF keys
                    THEN <<[to |-> "nutritionix", q |-> q, outcome |-> up]>>
                    ELSE <<>>
        /\ resp' = IF keys /\ up.kind = "response"
                   THEN FoodFromResponse(q, up)
                   ELSE [op |-> "search_food", q |-> q, status |-> 200,
                         items |-> FoodFallback(q)]
        /\ UNCHANGED <<store, nextId, writes, today, pending, env>>

InitFood ==
    /\ store = <<>>
    /\ nextId = 1
    /\ writes = 0
    /\ today = Dates[1]
    /\ pending = {}
    /\ \E id \in EnvValues, key \in EnvValues, je \in BOOLEAN :
          env = [BaseEnv EXCEPT !.NUTRITIONIX_APP_ID = id,
                                !.NUTRITIONIX_API_KEY = key,
                                !.json_error_is_request_exception = je]
    /\ calls = <<>>
    /\ resp = NoResp

NextFood == \E q \in FoodQueries, up \in FoodOutcomes : search_food(q, up)

SpecFood == InitFood /\ [][NextFood]_vars

----------------------------------------------------------------------------
(* Exercise search adapter *)

ExerciseSample ==
    << [name |-> <<"P", "u", "s", "h", "-", "u", "p">>, target |-> "petto", equipment |-> "body weight",
        bodyPart |-> "torace"],
       [name |-> <<"S", "q", "u", "a", "t">>, target |-> "gambe", equipment |-> "body weight",
        bodyPart |-> "gambe"],
       [name |-> <<"P", "l", "a", "n", "k">>, target |-> "core", equipment |-> "tappetino",
        bodyPart |-> "addome"] >>

ExerciseQueries == { <<>>, <<"s", "q", "u", "a", "t">>, <<"P", "L", "A", "N", "K">>, <<"p">>, <<"u">>, <<"y", "o", "g", "a">>, <<"-">> }

CurlExercise ==
    [name |-> <<"c", "u", "r", "l">>, target |-> "biceps",
     equipment |-> "dumbbell", bodyPart |-> "upper arms",
     gifUrl |-> "https://example.org/curl.gif"]
RowExercise == [name |-> <<"r", "o", "w">>]

ExerciseJson == { Some(<<CurlExercise, RowExercise>>), Some(<<>>), None }

ExerciseOutcomes ==
    {[kind |-> "error"]}
    \cup {[kind |-> "response", status |-> 200, text |-> <<>>, json |-> j] :
             j \in ExerciseJson}
    \cup {[kind |-> "response", status |-> st, text |-> Text(n), json |-> None] :
             st \in {404, 500}, n \in TextLengths}

ExerciseItemOf(it) ==
    [name      |-> GetOpt(it, "name"),
     target    |-> GetOpt(it, "target"),
     equipment |-> GetOpt(it, "equipment"),
     bodyPart  |-> GetOpt(it, "bodyPart"),
     gifUrl    |-> GetOpt(it, "gifUrl")]

\* the local filter: applied only when q is not empty
ExerciseFallback_orSample(q) ==
    LET filtered == SelectSeq(ExerciseSample,
                        LAMBDA s : Contains(Lower(q), Lower(s.name)))
    IN  IF filtered # <<>> THEN filtered ELSE ExerciseSample

ExerciseFallback(q) ==
    IF q # <<>>
    THEN SelectSeq(ExerciseSample, LAMBDA s : Contains(Lower(q), Lower(s.name)))
    ELSE ExerciseSample

ExerciseFromResponse(q, r) ==
    IF r.status # 200
    THEN [op |-> "search_exercises", q |-> q, status |-> 502,
          detail |-> Fmt("ExerciseDB error: ", Take(r.text, TextLimit))]
    ELSE IF r.json = None
    THEN IF env.json_error_is_request_exception
         THEN [op |-> "search_exercises", q |-> q, status |-> 200,
               items |-> ExerciseFallback(q)]
         ELSE [op |-> "search_exercises", q |-> q, status |-> 500]
    ELSE [op |-> "search_exercises", q |-> q, status |-> 200,
          items |-> LET data == r.json[1]
                    IN  [i \in 1..Len(data) |-> ExerciseItemOf(data[i])]]

\* GET /api/exercises/search?q=
search_exercises_keyOnly(q, up) ==
    LET online == Truthy(env.RAPIDAPI_KEY)
    IN  /\ calls' = IF online
                    THEN <<[to |-> "exercisedb", q |-> q, outcome |-> up]>>
                    ELSE <<>>
        /\ resp' = IF online /\ up.kind = "response"
                   THEN ExerciseFromResponse(q, up)
                   ELSE [op |-> "search_exercises", q |-> q, status |-> 200,
                         items |-> ExerciseFallback(q)]
        /\ UNCHANGED <<store, nextId, writes, today, pending, env>>

search_exercises(q, up) ==
    LET online == Truthy(env.RAPIDAPI_KEY) /\ q # <<>>
    IN  /\ calls' = IF online
                    THEN <<[to |-> "exercisedb", q |-> q, outcome |-> up]>>
                    ELSE <<>>
        /\ resp' = IF online /\ up.kind = "response"
                   THEN ExerciseFromResponse(q, up)
                   ELSE [op |-> "search_exercises", q |-> q, status |-> 200,
                         items |-> ExerciseFallback(q)]
        /\ UNCHANGED <<store, nextId, writes, today, pending, env>>

InitExercises ==
    /\ store = <<>>
    /\ nextId = 1
    /\ writes = 0
    /\ today = Dates[1]
    /\ pending = {}
    /\ \E key \in EnvValues, je \in BOOLEAN :
          env = [BaseEnv EXCEPT !.RAPIDAPI_KEY = key,
                                !.json_error_is_request_exception = je]
    /\ calls = <<>>
    /\ resp = NoResp

NextExercises ==
    \E q \in ExerciseQueries, up \in ExerciseOutcomes : search_exercises(q, up)

SpecExercises == InitExercises /\ [][NextExercises]_vars

----------------------------------------------------------------------------
(* Diagnostics endpoint.  The status texts are the source's without their  *)
(* leading emoji.                                                          *)

CollectionsLimit == 10
ErrorLimit == 50

AllCollections ==
    <<"foodentry", "workout", "user", "goal", "weight", "sleep", "water",
      "recipe", "plan", "note", "photo", "badge">>

\* db.list_collection_names(): the names, or an exception with a message
ProbeOutcomes ==
    {[ok |-> TRUE, names |-> Take(AllCollections, n)] :
        n \in 0..Len(AllCollections)}
    \cup {[ok |-> FALSE, error |-> Text(n)] : n \in {0, 7, 49, 50, 51, 60}}

DiagResponse ==
    [op                |-> "test",
     status            |-> 200,
     backend           |-> "Running",
     database          |-> Fmt("Not Available", <<>>),
     database_url      |-> None,
     database_name     |-> None,
     connection_status |-> "Not Connected",
     collections       |-> <<>>]

\* the branch of test_database taken when db is not None
DiagConnected_outerCatch(db, probe) ==
    LET r == [DiagResponse EXCEPT
                 !.database_url = Some(IF Truthy(env.DATABASE_URL)
                                       THEN "Set" ELSE "Not Set"),
                 !.database_name = Some(IF "name" \in DOMAIN db
                                        THEN db.name ELSE "Connected"),
                 !.connection_status = "Connected"]
    IN  IF probe.ok
        THEN [r EXCEPT !.collections = Take(probe.names, CollectionsLimit),
                       !.database = Fmt("Connected & Working", <<>>)]
        ELSE [r EXCEPT !.database =
                 Fmt("Error: ", Take(probe.error, ErrorLimit))]

DiagConnected(db, probe) ==
    LET r == [DiagResponse EXCEPT
                 !.database_url = Some(IF Truthy(env.DATABASE_URL)
                                       THEN "Set" ELSE "Not Set"),
                 !.database_name = Some(IF "name" \in DOMAIN db
                                        THEN db.name ELSE "Connected"),
                 !.connection_status = "Connected"]
    IN  IF probe.ok
        THEN [r EXCEPT !.collections = Take(probe.names, CollectionsLimit),
                       !.database = Fmt("Connected & Working", <<>>)]
        ELSE [r EXCEPT !.database =
                 Fmt("Connected but Error: ", Take(probe.error, ErrorLimit))]

\* GET /test.  Nothing between the outer try and the probe can raise for a
\* pymongo handle, so the outer handler has no case here.
test_database(probe) ==
    /\ IF env.db # None
       THEN /\ resp' = DiagConnected(env.db[1], probe)
            /\ calls' = <<[to |-> "db", outcome |-> probe]>>
       ELSE /\ resp' = [DiagResponse EXCEPT
                          !.database = Fmt("Available but not initialized", <<>>)]
            /\ calls' = <<>>
    /\ UNCHANGED <<store, nextId, writes, today, pending, env>>

\* stores the diary can have left behind
DiagStores ==
    { <<>>,
      create_document(<<>>, 1, FoodDoc(DiaryFoodCreate(AppleBody), Dates[1])) }

InitDiag ==
    /\ store \in DiagStores
    /\ nextId = Len(store) + 1
    /\ writes = Len(store)
    /\ today = Dates[1]
    /\ pending = {}
    /\ \E db \in {None, Some(DbHandle)},
          url \in {None, Some(""), BaseEnv.DATABASE_URL} :
          env = [BaseEnv EXCEPT !.db = db, !.DATABASE_URL = url]
    /\ calls = <<>>
    /\ resp = NoResp

NextDiag == \E probe \in ProbeOutcomes : test_database(probe)

SpecDiag == InitDiag /\ [][NextDiag]_vars

----------------------------------------------------------------------------
(* Properties of the diary *)

HasSummary(r) == r.op \in {"add", "summary"}

\* positions of the documents of day d among the first n stored
DayIdx(n, d) == {i \in 1..n : store[i].day = d}

\* the k-th smallest element of a set of positions
Kth(S, k) == CHOOSE i \in S : Cardinality({j \in S : j <= i}) = k

\* a stored document as a response shows it
Shown(e) == [k \in DOMAIN e |-> IF k = "_id" THEN ToString(e[k].oid) ELSE e[k]]

RECURSIVE ExactSum(_, _, _)
ExactSum(seq, S, field) ==
    IF S = {} THEN 0
    ELSE LET i == CHOOSE j \in S : TRUE
         IN  (IF field \in DOMAIN seq[i] THEN seq[i][field] ELSE 0)
             + ExactSum(seq, S \ {i}, field)

\* t is x rounded to one decimal: a whole number of tenths, nearest to x
IsRounded1(t, x) == t % 10 = 0 /\ 2 * (t - x) <= 10 /\ 2 * (x - t) <= 10

\* C1: every summary a handler returned lists exactly the documents of its
\* day that were stored when it read, in stored order, and each macro total is
\* the sum of that field over exactly those documents (a missing field counts
\* 0), rounded to one decimal; documents of other days are not listed and do
\* not count.
C1_SummaryIsDayAggregate ==
    HasSummary(resp) =>
        LET s == resp.summary
            S == DayIdx(resp.at, s.day)
        IN  /\ resp.at <= Len(store)
            /\ Len(s.entries) = Cardinality(S)
            /\ \A k \in 1..Len(s.entries) : s.entries[k] = Shown(store[Kth(S, k)])
            /\ DOMAIN s.totals = MacroFields
            /\ \A f \in MacroFields :
                  IsRounded1(s.totals[f], ExactSum(store, S, f))

\* a summary over two documents of its day, with a document of another day
\* stored, a request that omitted protein_g, and a total that needed rounding
C1_Witness ==
    /\ HasSummary(resp)
    /\ Len(resp.summary.entries) >= 2
    /\ \E i \in 1..resp.at : store[i].day # resp.summary.day
    /\ \E k \in 1..Len(resp.summary.entries) :
          resp.summary.entries[k].food_name = "Refund"
    /\ ExactSum(store, DayIdx(resp.at, resp.summary.day), "calories") % 10 = 5

\* C2: a stored document is never changed or removed (the store only grows
\* by appending), and every summary returned for day D lists, unchanged,
\* every document of day D written before the request, with totals that are
\* the rounded sums over the listed documents.
C2_WrittenEntriesPersist ==
    [][/\ Len(store') >= Len(store)
       /\ \A i \in 1..Len(store) : store'[i] = store[i]
       /\ (HasSummary(resp') /\ resp' # resp) =>
             LET s == resp'.summary
             IN  /\ \A i \in 1..Len(store) :
                       store[i].day = s.day =>
                          \E k \in 1..Len(s.entries) : s.entries[k] = Shown(store[i])
                 /\ \A f \in MacroFields :
                       IsRounded1(s.totals[f],
                                  ExactSum(s.entries, 1..Len(s.entries), f))]_vars

\* an entry written with day "2024-03-01" is listed by a summary for that day
\* returned after a further write and a change of date
C2_Witness ==
    /\ resp.op = "summary"
    /\ resp.summary.day = "2024-03-01"
    /\ today # "2024-03-01"
    /\ Len(store) >= 2
    /\ store[1].day = "2024-03-01"
    /\ resp.at = Len(store)
    /\ resp.summary.entries[1] = Shown(store[1])

\* C3: a summary request does not change the store, and when the previous
\* response already is a summary of the same day read with no write since,
\* the new summary is identical to it (day, totals, entries and their order).
C3_SummaryIdempotent ==
    [][(resp'.op = "summary" /\ resp' # resp) =>
          /\ store' = store
          /\ (HasSummary(resp) /\ resp.at = Len(store)
              /\ resp.summary.day = resp'.summary.day)
                => resp'.summary = resp.summary]_vars

\* a summary of a non-empty day, returned right after an add returned the
\* summary of that same day, with no write between the two reads
C3_Witness ==
    /\ resp.op = "summary"
    /\ resp.at = Len(store)
    /\ pending = {}
    /\ Len(resp.summary.entries) >= 2

ApplePlain == DiaryFoodCreate(AppleBody)

\* the listed entry an add response's inserted_id names
OwnIdx(r) == {k \in 1..Len(r.summary.entries) :
                 r.summary.entries[k]["_id"] = r.inserted_id}

\* C7 as stated: every response to adding the Apple (calories 95, no
\* consumed_at) carries totals.calories of at least 95.
C7_AppleTotalAtLeast95 ==
    (resp.op = "add" /\ resp.item = ApplePlain) =>
        resp.summary.totals.calories >= 9500

\* C7 amended: adding the Apple with no consumed_at appends exactly one
\* document, dated to the server's current date, and the response is the
\* summary of that same day, listing the document; its totals.calories is the
\* rounded calorie sum of the listed entries, and so at least 95 whenever the
\* calories of the other listed entries sum to 0 or more.
C7_AppleAmended ==
    [][/\ \A p \in pending' \ pending :
             p.item = ApplePlain =>
                /\ Len(store') = Len(store) + 1
                /\ \A i \in 1..Len(store) : store'[i] = store[i]
                /\ store'[Len(store')].day = today
                /\ store'[Len(store')].calories = 9500
                /\ ToString(store'[Len(store')]["_id"].oid) = p.inserted_id
       /\ (resp'.op = "add" /\ resp'.item = ApplePlain) =>
             LET s == resp'.summary
                 own == OwnIdx(resp')
             IN  /\ Cardinality(own) = 1
                 /\ \A k \in own : s.entries[k].day = s.day
                                   /\ s.entries[k].calories = 9500
                 /\ IsRounded1(s.totals.calories,
                               ExactSum(s.entries, 1..Len(s.entries), "calories"))
                 /\ ExactSum(s.entries, (1..Len(s.entries)) \ own, "calories") >= 0
                       => s.totals.calories >= 9500]_vars

\* the Apple added with no consumed_at after the date changed, to a day that
\* already holds another entry
C7_Witness ==
    /\ resp.op = "add"
    /\ resp.item = ApplePlain
    /\ resp.summary.day = "2024-03-02"
    /\ Len(resp.summary.entries) >= 2
    /\ resp.summary.totals.calories >= 9500

\* C10: under every interleaving of adds and summaries, each completed write
\* added exactly one document (identical payloads included), the summary an
\* add returns is for the day of the document it inserted and lists it, and
\* the totals of every returned summary are the rounded sums over exactly the
\* entries that summary lists.
C10_ConcurrentAdds ==
    /\ Len(store) = writes
    /\ \A i, j \in 1..Len(store) : store[i]["_id"] = store[j]["_id"] => i = j
    /\ \A p \in pending :
          \E i \in 1..Len(store) :
             ToString(store[i]["_id"].oid) = p.inserted_id /\ store[i].day = p.day
    /\ resp.op = "add" =>
          /\ Cardinality(OwnIdx(resp)) = 1
          /\ \A k \in OwnIdx(resp) :
                /\ resp.summary.entries[k].day = resp.summary.day
                /\ \E i \in 1..Len(store) :
                      resp.summary.entries[k] = Shown(store[i])
    /\ HasSummary(resp) =>
          \A f \in MacroFields :
             IsRounded1(resp.summary.totals[f],
                        ExactSum(resp.summary.entries,
                                 1..Len(resp.summary.entries), f))

\* two identical payloads stored as two documents, and an add whose summary
\* also lists the document a concurrent add wrote after its own
C10_Witness ==
    /\ resp.op = "add"
    /\ \E k \in 1..Len(resp.summary.entries) :
          /\ resp.summary.entries[k]["_id"] # resp.inserted_id
          /\ \E i \in 1..Len(store) :
                /\ resp.summary.entries[k] = Shown(store[i])
                /\ \E j \in 1..(i - 1) :
                      /\ ToString(store[j]["_id"].oid) = resp.inserted_id
                      /\ [f \in DOMAIN store[i] \ {"_id"} |-> store[i][f]]
                           = [f \in DOMAIN store[j] \ {"_id"} |-> store[j][f]]

----------------------------------------------------------------------------
(* Properties of the search adapters *)

\* a and b are the same character up to letter case
SameLetter(a, b) ==
    \/ a = b
    \/ \E j \in 1..Len(UpperChars) :
          {a, b} = {UpperChars[j], LowerChars[j]}

\* name contains q, ignoring case
ContainsCI(q, name) ==
    \E off \in 0..(Len(name) - Len(q)) :
        \A i \in 1..Len(q) : SameLetter(q[i], name[off + i])

\* items is the sub-list of sample at the positions S, in sample order
IsSubList(items, sample, S) ==
    /\ Len(items) = Cardinality(S)
    /\ \A k \in 1..Len(items) :
          items[k] = sample[CHOOSE i \in S : Cardinality({j \in S : j <= i}) = k]

FoodMatches(q) == {i \in 1..Len(FoodSample) : ContainsCI(q, FoodSample[i].food_name)}

\* the sample-data result for q
IsFoodSampleResult(r, q) ==
    /\ r.status = 200
    /\ IF FoodMatches(q) = {}
       THEN r.items = FoodSample
       ELSE IsSubList(r.items, FoodSample, FoodMatches(q))

KeysConfigured ==
    /\ env.NUTRITIONIX_APP_ID \notin {None, Some("")}
    /\ env.NUTRITIONIX_API_KEY \notin {None, Some("")}

\* detail is the literal followed by the first `limit` characters of text
IsTruncated(detail, literal, text, limit) ==
    LET n == IF Len(text) <= limit THEN Len(text) ELSE limit
    IN  /\ Len(detail) = n + 1
        /\ detail[1] = literal
        /\ \A i \in 1..n : detail[i + 1] = text[i]

\* r.items are the upstream foods, field by field, missing numbers as 0
IsMappedFoods(r, foods) ==
    /\ r.status = 200
    /\ Len(r.items) = Len(foods)
    /\ \A i \in 1..Len(foods) :
          LET f == foods[i]  it == r.items[i]
          IN  /\ it.food_name = IF "food_name" \in DOMAIN f THEN <<f.food_name>> ELSE <<>>
              /\ it.calories = IF "nf_calories" \in DOMAIN f THEN f.nf_calories ELSE 0
              /\ it.protein_g = IF "nf_protein" \in DOMAIN f THEN f.nf_protein ELSE 0
              /\ it.carbohydrates_total_g =
                    IF "nf_total_carbohydrate" \in DOMAIN f
                    THEN f.nf_total_carbohydrate ELSE 0
              /\ it.fat_total_g = IF "nf_total_fat" \in DOMAIN f THEN f.nf_total_fat ELSE 0
              /\ it.serving_qty = IF "serving_qty" \in DOMAIN f THEN <<f.serving_qty>> ELSE <<>>
              /\ it.serving_unit = IF "serving_unit" \in DOMAIN f THEN <<f.serving_unit>> ELSE <<>>

\* the clauses of C4 that do not depend on the body of a 200 response
FoodErrorClauses ==
    /\ Len(calls) = 1
    /\ calls[1].q = resp.q
    /\ LET up == calls[1].outcome
       IN  /\ (up.kind = "response" /\ up.status # 200) =>
                 /\ resp.status = 502
                 /\ "items" \notin DOMAIN resp
                 /\ IsTruncated(resp.detail, "Nutritionix error: ", up.text, 120)
           /\ up.kind = "error" => IsFoodSampleResult(resp, resp.q)

\* C4 as stated: with both credentials configured there is exactly one
\* outbound call; a non-200 response gives 502 with the upstream text cut to
\* 120 characters and no items; a transport failure gives the sample-data
\* result; every 200 response gives the mapped upstream items.
C4_FoodOutcomeByUpstream ==
    (resp.op = "search_food" /\ KeysConfigured) =>
        /\ FoodErrorClauses
        /\ LET up == calls[1].outcome
           IN  (up.kind = "response" /\ up.status = 200) =>
                  /\ up.json # <<>>
                  /\ IsMappedFoods(resp, IF "foods" \in DOMAIN up.json[1]
                                         THEN up.json[1].foods ELSE <<>>)

\* C4 amended: as stated, except that only a 200 response whose body is a
\* JSON object gives the mapped upstream items (of its foods list, none when
\* the key is absent).
C4_FoodOutcomeAmended ==
    (resp.op = "search_food" /\ KeysConfigured) =>
        /\ FoodErrorClauses
        /\ LET up == calls[1].outcome
           IN  (up.kind = "response" /\ up.status = 200 /\ up.json # <<>>) =>
                  IsMappedFoods(resp, IF "foods" \in DOMAIN up.json[1]
                                      THEN up.json[1].foods ELSE <<>>)

\* a 404 whose message is longer than 120 characters, surfaced as a 502
C4_Witness ==
    /\ resp.op = "search_food"
    /\ KeysConfigured
    /\ Len(calls) = 1
    /\ calls[1].outcome.kind = "response"
    /\ calls[1].outcome.status = 404
    /\ Len(calls[1].outcome.text) = 130
    /\ resp.status = 502
    /\ Len(resp.detail) = 121

\* C5: without both credentials no outbound call is made and the result for
\* a query q is the sub-list of the 3-item sample whose food_name contains q
\* ignoring case, in sample order, or the whole sample when nothing matches;
\* it is never empty.
C5_FoodFallback ==
    (resp.op = "search_food" /\ ~KeysConfigured) =>
        /\ calls = <<>>
        /\ Len(resp.q) >= 1
        /\ IsFoodSampleResult(resp, resp.q)
        /\ resp.items # <<>>

\* a query that matches no sample food returns the three of them
C5_Witness ==
    /\ resp.op = "search_food"
    /\ ~KeysConfigured
    /\ resp.q = <<"t", "o", "f", "u">>
    /\ FoodMatches(resp.q) = {}
    /\ Len(resp.items) = 3

\* C6: an empty exercise query makes no outbound call and returns the whole
\* 3-item exercise sample, with or without the provider key.
C6_EmptyExerciseQuery ==
    (resp.op = "search_exercises" /\ resp.q = <<>>) =>
        /\ calls = <<>>
        /\ resp.status = 200
        /\ resp.items = ExerciseSample
        /\ Len(resp.items) = 3

\* the empty query answered while the provider key is configured
C6_Witness ==
    /\ resp.op = "search_exercises"
    /\ resp.q = <<>>
    /\ env.RAPIDAPI_KEY \notin {None, Some("")}
    /\ Len(resp.items) = 3

ExerciseMatches(q) ==
    {i \in 1..Len(ExerciseSample) : ContainsCI(q, ExerciseSample[i].name)}

\* C9: a non-empty exercise query answered from the sample (no key, or the
\* outbound call failed in transport) returns exactly the sample exercises
\* whose name contains q ignoring case, in sample order: the empty list when
\* none does.
C9_ExerciseFallbackFilter ==
    (/\ resp.op = "search_exercises"
     /\ resp.q # <<>>
     /\ \/ env.RAPIDAPI_KEY \in {None, Some("")}
        \/ (Len(calls) = 1 /\ calls[1].outcome.kind = "error")) =>
        /\ resp.status = 200
        /\ IsSubList(resp.items, ExerciseSample, ExerciseMatches(resp.q))
        /\ ExerciseMatches(resp.q) = {} => resp.items = <<>>

\* a query that matches no sample exercise, after a transport failure,
\* returns the empty list
C9_Witness ==
    /\ resp.op = "search_exercises"
    /\ resp.q = <<"y", "o", "g", "a">>
    /\ Len(calls) = 1
    /\ calls[1].outcome.kind = "error"
    /\ resp.status = 200
    /\ resp.items = <<>>

----------------------------------------------------------------------------
(* Properties of the diagnostics endpoint *)

\* C8: test_database always answers (it never raises) and leaves the store
\* as it was.  With no store handle it reports "not initialized", "Not
\* Connected" and no collections, and does not probe.  When the probe fails
\* the database field is an error text holding at most the first 50
\* characters of the failure and connection_status stays "Connected".  When
\* the probe succeeds it lists the first 10 collection names at most.
C8_Diagnostics ==
    [][/\ store' = store
       /\ resp'.op = "test" =>
             /\ resp'.status = 200
             /\ env.db = <<>> =>
                   /\ calls' = <<>>
                   /\ resp'.database = <<"Available but not initialized">>
                   /\ resp'.connection_status = "Not Connected"
                   /\ resp'.collections = <<>>
             /\ env.db # <<>> =>
                   /\ Len(calls') = 1
                   /\ resp'.connection_status = "Connected"
                   /\ LET probe == calls'[1].outcome
                      IN  IF probe.ok
                          THEN /\ Len(resp'.collections) <= 10
                               /\ Len(resp'.collections) <= Len(probe.names)
                               /\ Len(resp'.collections) = 10
                                     \/ Len(resp'.collections) = Len(probe.names)
                               /\ \A i \in 1..Len(resp'.collections) :
                                     resp'.collections[i] = probe.names[i]
                          ELSE /\ IsTruncated(resp'.database,
                                              "Connected but Error: ", probe.error, 50)
                               /\ resp'.collections = <<>>]_vars

\* a probe that failed with a 60-character message, reported cut to 50,
\* over a store that holds an entry
C8_Witness ==
    /\ resp.op = "test"
    /\ store # <<>>
    /\ env.db # <<>>
    /\ Len(calls) = 1
    /\ ~calls[1].outcome.ok
    /\ Len(calls[1].outcome.error) = 60
    /\ Len(resp.database) = 51
    /\ resp.connection_status = "Connected"

====
